---------------------------- MODULE Spec2Model ----------------------------
(***************************************************************************)
(* optimize_logo.py: open the logo at a fixed path, cap its width at 512   *)
(* pixels, write it back, and report on the console.  The script is run    *)
(* by hand, possibly several times on the same file.                       *)
(*                                                                         *)
(* The state is the file at `path`, the script's local variables, its      *)
(* console output and its position in the text.  One action per statement. *)
(* ratio is a Python float: IEEE-754 binary64 arithmetic is modelled bit   *)
(* by bit, so that int(img.height * ratio) is computed as the interpreter  *)
(* computes it.                                                            *)
(***************************************************************************)
EXTENDS Integers, Sequences, FiniteSets, TLC

VARIABLES
    pillow,       \* whether `from PIL import Image` can succeed in this environment
    disk,         \* the file at `path`
    img,          \* the script's variable img
    ratio,        \* the script's variable ratio (a float)
    new_height,   \* the script's variable new_height
    out,          \* lines printed by the current run
    pc,           \* the statement the current run is at
    exc,          \* class of the exception raised in the current run, or "none"
    exit_status,  \* the interpreter's exit status once the run is over
    io,           \* file-system calls made by the current run on `path`
    saves,        \* img.save calls of the current run that completed
    start,        \* the file at `path` when the current run began
    runs          \* one record per finished run

vars == <<pillow, disk, img, ratio, new_height, out, pc, exc, exit_status,
          io, saves, start, runs>>

---------------------------------------------------------------------------
(* Bounds of the model *)

MaxRuns == 2            \* how many times the script is run in succession
Spread == 2             \* widths tried on each side of the 512 threshold
MaxSmallHeight == 3     \* heights 1..MaxSmallHeight are tried

---------------------------------------------------------------------------
(* Binary64 arithmetic.  A positive float is [bits, exp]: 53 binary digits, *)
(* the first of them 1, and the value 0.b1 b2 ... b53 * 2^exp.              *)

Precision == 53
LimbBits == 9

(* The element of a one-element set.  {F(v) : v \in {e}} evaluates e once, *)
(* however often F uses v.                                                  *)
The(S) == CHOOSE v \in S : TRUE

(* n as len binary digits, most significant first *)
DigitBits(n, len) == [i \in 1..len |-> (n \div 2^(len - i)) % 2]

BitLength(n) ==
    CHOOSE k \in 0..31 : n \div 2^k = 0 /\ \A j \in 0..(k - 1) : n \div 2^j # 0

IntToBits(n) == DigitBits(n, BitLength(n))

(* the number written by the digits bits[lo..hi] *)
RECURSIVE BitsToInt(_, _, _)
BitsToInt(bits, lo, hi) ==
    IF hi < lo THEN 0 ELSE 2 * BitsToInt(bits, lo, hi - 1) + bits[hi]

StripZeros(bits) ==
    The({IF \A i \in 1..Len(b) : b[i] = 0 THEN <<>>
         ELSE LET first == CHOOSE i \in 1..Len(b) :
                               b[i] = 1 /\ \A j \in 1..(i - 1) : b[j] = 0
              IN  SubSeq(b, first, Len(b)) :
            b \in {bits}})

(* 2^i mod d, by repeated squaring *)
RECURSIVE Pow2Mod(_, _)
Pow2Mod(i, d) ==
    IF i = 0 THEN 1 % d
    ELSE The({(((s * s) % d) * (IF i % 2 = 1 THEN 2 ELSE 1)) % d :
                 s \in {Pow2Mod(i \div 2, d)}})

(* The first n binary digits of the fraction r/d (0 <= r < d), and what is *)
(* left of the dividend after them.                                         *)
FractionBits(r, d, n) ==
    [bits |-> [i \in 1..n |-> (2 * ((r * Pow2Mod(i - 1, d)) % d)) \div d],
     rem  |-> (r * Pow2Mod(n, d)) % d]

(* bits + 1, for bits that are not all 1 *)
IncBits(bits) ==
    The({The({[i \in 1..Len(b) |-> IF i < z THEN b[i] ELSE IF i = z THEN 1 ELSE 0] :
                 z \in {CHOOSE i \in 1..Len(b) :
                            b[i] = 0 /\ \A j \in (i + 1)..Len(b) : b[j] = 1}}) :
            b \in {bits}})

(* IEEE-754 round to nearest, ties to even, of 0.bits * 2^exp *)
RoundNearestEven(bits, sticky, exp) ==
    The({LET guard == IF Len(b) > Precision THEN b[Precision + 1] ELSE 0
             rest  == sticky \/ \E i \in (Precision + 2)..Len(b) : b[i] = 1
             up    == guard = 1 /\ (rest \/ b[Precision] = 1)
         IN  IF ~up THEN [bits |-> SubSeq(b, 1, Precision), exp |-> exp]
             ELSE IF \A i \in 1..Precision : b[i] = 1
                  THEN [bits |-> [i \in 1..Precision |-> IF i = 1 THEN 1 ELSE 0],
                        exp |-> exp + 1]
                  ELSE [bits |-> IncBits(SubSeq(b, 1, Precision)), exp |-> exp] :
            b \in {bits}})

(* a / b = (r / d) * 2^exp with 1/2 <= r/d < 1 *)
Normalize(a, b) ==
    IF a < b
    THEN LET k == CHOOSE j \in 0..30 : a * 2^j < b /\ a * 2^(j + 1) >= b
         IN  [r |-> a * 2^k, d |-> b, exp |-> 0 - k]
    ELSE LET e == CHOOSE j \in 1..30 : a < b * 2^j /\ a >= b * 2^(j - 1)
         IN  [r |-> a, d |-> b * 2^e, exp |-> e]

(* int / int in Python: the correctly rounded binary64 quotient *)
FloatDiv(a, b) ==
    The({The({RoundNearestEven(q.bits, q.rem # 0, n.exp) :
                 q \in {FractionBits(n.r, n.d, Precision + 1)}}) :
            n \in {Normalize(a, b)}})

(* bits in groups of LimbBits digits, the first group padded with zeros *)
ToLimbs(bits) ==
    LET n   == (Len(bits) + LimbBits - 1) \div LimbBits
        pad == n * LimbBits - Len(bits)
    IN  The({[j \in 1..n |-> BitsToInt(padded, LimbBits * (j - 1) + 1, LimbBits * j)] :
                padded \in {[i \in 1..(n * LimbBits) |->
                                IF i <= pad THEN 0 ELSE bits[i - pad]]}})

(* the binary digits of h * (limbs[1..n]) + carry *)
RECURSIVE MulLimbs(_, _, _, _)
MulLimbs(limbs, n, h, carry) ==
    IF n = 0 THEN IntToBits(carry)
    ELSE The({MulLimbs(limbs, n - 1, h, t \div 2^LimbBits)
                  \o DigitBits(t % 2^LimbBits, LimbBits) :
                 t \in {h * limbs[n] + carry}})

FloatZero == [bits |-> [i \in 1..Precision |-> 0], exp |-> 0]

(* int * float in Python: the int is converted exactly, the exact product *)
(* is rounded once                                                         *)
IntTimesFloat(h, x) ==
    The({IF h = 0 \/ f = FloatZero THEN FloatZero
         ELSE The({The({RoundNearestEven(p, FALSE, f.exp + Len(p) - Precision) :
                           p \in {StripZeros(MulLimbs(limbs, Len(limbs), h, 0))}}) :
                      limbs \in {ToLimbs(f.bits)}}) :
            f \in {x}})

(* int(float): truncation toward zero *)
FloatToInt(x) ==
    The({IF f.exp <= 0 THEN 0 ELSE BitsToInt(f.bits, 1, f.exp) : f \in {x}})

---------------------------------------------------------------------------
(* The file at `path` and the image in memory *)

MaxWidth == 512
Quality == 85

NoFile == [kind |-> "missing", w |-> 0, h |-> 0]
(* a file no decoder identifies *)
Garbage == [kind |-> "garbage", w |-> 0, h |-> 0]
(* a file whose header gives its size and whose pixel data decodes *)
ImageFile(w, h) == [kind |-> "image", w |-> w, h |-> h]
(* a file whose header gives its size and whose pixel data does not decode *)
TruncatedFile(w, h) == [kind |-> "truncated", w |-> w, h |-> h]

NoImage == [w |-> 0, h |-> 0, src |-> "none"]

Widths == ((MaxWidth - Spread)..(MaxWidth + Spread)) \cup {1, 644, 1024, 2048}
Heights == (1..MaxSmallHeight) \cup {161, 768}

Files ==
    {NoFile, Garbage}
        \cup {ImageFile(w, h) : w \in Widths, h \in Heights}
        \cup {TruncatedFile(w, h) : w \in Widths, h \in Heights}

Line(text, w, h) == [text |-> text, w |-> w, h |-> h]

---------------------------------------------------------------------------
(* Exceptions: the classes the calls raise and the handler that takes each *)

Bases(cls) ==
    CASE cls = "ImportError"             -> {"ImportError", "Exception"}
      [] cls = "OSError"                 -> {"OSError", "Exception"}
      [] cls = "UnidentifiedImageError"  -> {"UnidentifiedImageError", "OSError", "Exception"}
      [] cls = "ValueError"              -> {"ValueError", "Exception"}
      [] cls = "AttributeError"          -> {"AttributeError", "Exception"}
      [] OTHER                           -> {}

(* the first clause written as a catch-all *)
HandlerImportErrorCatchesAll(cls) ==
    IF "Exception" \in Bases(cls) THEN "ImportError" ELSE "none"

(* the second clause left out *)
HandlerWithoutCatchAll(cls) ==
    IF "ImportError" \in Bases(cls) THEN "ImportError" ELSE "none"

(* the second clause written as `except OSError` *)
HandlerOSErrorOnly(cls) ==
    IF "ImportError" \in Bases(cls) THEN "ImportError"
    ELSE IF "OSError" \in Bases(cls) THEN "Exception"
    ELSE "none"

(* the except clauses in the order they are written *)
Handler(cls) ==
    IF "ImportError" \in Bases(cls) THEN "ImportError"
    ELSE IF "Exception" \in Bases(cls) THEN "Exception"
    ELSE "none"

Raise(cls) == pc' = "except" /\ exc' = cls

(* what resize can raise: the size is refused, Image.Resampling is absent *)
ResizeFaults == {"ValueError", "AttributeError"}

(* Image.open reads the header only; the pixel data is decoded when the   *)
(* image is first processed                                                *)
LoadFails == img.src = "file" /\ disk.kind # "image"

---------------------------------------------------------------------------
(* The script *)

(* the existence test left out *)
FileExistsUnchecked == TRUE

FileExists == disk.kind # "missing"

(* the comparison written >= *)
NeedsResizeAtThreshold(width) == width >= MaxWidth

NeedsResize(width) == width > MaxWidth

(* the width passed on unchanged *)
ResizeSizeUncapped == [w |-> img.w, h |-> new_height]

ResizeSize == [w |-> MaxWidth, h |-> new_height]

SaveArgs == [w |-> img.w, h |-> img.h, optimize |-> TRUE, quality |-> Quality]

NotExited == 0 - 1

Init ==
    /\ pillow \in BOOLEAN
    /\ disk \in Files
    /\ img = NoImage
    /\ ratio = FloatZero
    /\ new_height = 0
    /\ out = <<>>
    /\ pc = "import"
    /\ exc = "none"
    /\ exit_status = NotExited
    /\ io = <<>>
    /\ saves = <<>>
    /\ start = disk
    /\ runs = <<>>

(* from PIL import Image; import os *)
Import ==
    /\ pc = "import"
    /\ IF pillow THEN pc' = "exists" /\ UNCHANGED exc
       ELSE Raise("ImportError")
    /\ UNCHANGED <<pillow, disk, img, ratio, new_height, out, exit_status,
                   io, saves, start, runs>>

(* if os.path.exists(path): *)
Exists ==
    /\ pc = "exists"
    /\ io' = Append(io, "exists")
    /\ pc' = IF FileExists THEN "open" ELSE "exit"
    /\ UNCHANGED <<pillow, disk, img, ratio, new_height, out, exc, exit_status,
                   saves, start, runs>>

(* img = Image.open(path) *)
Open ==
    /\ pc = "open"
    /\ io' = Append(io, "open")
    /\ \/ /\ disk.kind = "garbage"
          /\ Raise("UnidentifiedImageError")
          /\ UNCHANGED img
       \/ /\ Raise("OSError")      \* the file cannot be read
          /\ UNCHANGED img
       \/ /\ disk.kind \in {"image", "truncated"}
          /\ img' = [w |-> disk.w, h |-> disk.h, src |-> "file"]
          /\ pc' = "print_original"
          /\ UNCHANGED exc
    /\ UNCHANGED <<pillow, disk, ratio, new_height, out, exit_status,
                   saves, start, runs>>

(* print(f"Original size: {img.size}") *)
PrintOriginal ==
    /\ pc = "print_original"
    /\ out' = Append(out, Line("Original size", img.w, img.h))
    /\ pc' = "test"
    /\ UNCHANGED <<pillow, disk, img, ratio, new_height, exc, exit_status,
                   io, saves, start, runs>>

(* if img.width > 512: *)
Test ==
    /\ pc = "test"
    /\ pc' = IF NeedsResize(img.w) THEN "ratio" ELSE "print_small"
    /\ UNCHANGED <<pillow, disk, img, ratio, new_height, out, exc, exit_status,
                   io, saves, start, runs>>

(* ratio = 512 / img.width *)
Ratio ==
    /\ pc = "ratio"
    /\ ratio' = FloatDiv(MaxWidth, img.w)
    /\ pc' = "new_height"
    /\ UNCHANGED <<pillow, disk, img, new_height, out, exc, exit_status,
                   io, saves, start, runs>>

(* new_height = int(img.height * ratio) *)
NewHeight ==
    /\ pc = "new_height"
    /\ new_height' = FloatToInt(IntTimesFloat(img.h, ratio))
    /\ pc' = "resize"
    /\ UNCHANGED <<pillow, disk, img, ratio, out, exc, exit_status,
                   io, saves, start, runs>>

(* img = img.resize((512, new_height), Image.Resampling.LANCZOS)           *)
(* The library may refuse the call, whatever the size asked for.           *)
Resize ==
    /\ pc = "resize"
    /\ \/ /\ \E cls \in (IF LoadFails THEN {"OSError"} ELSE ResizeFaults) : Raise(cls)
          /\ UNCHANGED img
       \/ /\ ~LoadFails
          /\ img' = [w |-> ResizeSize.w, h |-> ResizeSize.h, src |-> "memory"]
          /\ pc' = "save_resized"
          /\ UNCHANGED exc
    /\ UNCHANGED <<pillow, disk, ratio, new_height, out, exit_status,
                   io, saves, start, runs>>

(* img.save(path, optimize=True, quality=85)                               *)
(* A save that fails before the file is opened for writing leaves it as it *)
(* was; one that fails later leaves a file cut short.                      *)
Save(next) ==
    /\ io' = Append(io, "save")
    /\ \/ /\ Raise("OSError")
          /\ disk' \in (IF LoadFails THEN {disk}
                        ELSE {disk, Garbage, TruncatedFile(img.w, img.h)})
          /\ UNCHANGED saves
       \/ /\ ~LoadFails
          /\ disk' = ImageFile(img.w, img.h)
          /\ saves' = Append(saves, SaveArgs)
          /\ pc' = next
          /\ UNCHANGED exc
    /\ UNCHANGED <<pillow, img, ratio, new_height, out, exit_status, start, runs>>

(* the save statement of the resize branch left out *)
SaveResizedSkipped ==
    /\ pc = "save_resized"
    /\ pc' = "print_resized"
    /\ UNCHANGED <<pillow, disk, img, ratio, new_height, out, exc, exit_status,
                   io, saves, start, runs>>

SaveResized == pc = "save_resized" /\ Save("print_resized")

(* print(f"Resized to: {img.size}") *)
PrintResized ==
    /\ pc = "print_resized"
    /\ out' = Append(out, Line("Resized to", img.w, img.h))
    /\ pc' = "exit"
    /\ UNCHANGED <<pillow, disk, img, ratio, new_height, exc, exit_status,
                   io, saves, start, runs>>

(* print("Image small enough, skipping resize.") *)
PrintSmall ==
    /\ pc = "print_small"
    /\ out' = Append(out, Line("Image small enough, skipping resize.", 0, 0))
    /\ pc' = "save_small"
    /\ UNCHANGED <<pillow, disk, img, ratio, new_height, exc, exit_status,
                   io, saves, start, runs>>

(* the save statement of the else branch left out *)
SaveSmallSkipped ==
    /\ pc = "save_small"
    /\ pc' = "print_optimized"
    /\ UNCHANGED <<pillow, disk, img, ratio, new_height, out, exc, exit_status,
                   io, saves, start, runs>>

SaveSmall == pc = "save_small" /\ Save("print_optimized")

(* print("Optimized existing image.") *)
PrintOptimized ==
    /\ pc = "print_optimized"
    /\ out' = Append(out, Line("Optimized existing image.", 0, 0))
    /\ pc' = "exit"
    /\ UNCHANGED <<pillow, disk, img, ratio, new_height, exc, exit_status,
                   io, saves, start, runs>>

(* except ImportError: ... except Exception as e: ...                      *)
(* An exception no clause takes leaves the try statement unhandled.        *)
Except ==
    /\ pc = "except"
    /\ out' = IF Handler(exc) = "ImportError"
                  THEN Append(out, Line("Pillow not installed", 0, 0))
              ELSE IF Handler(exc) = "Exception"
                  THEN Append(out, Line("Error", 0, 0))
              ELSE out
    /\ pc' = "exit"
    /\ UNCHANGED <<pillow, disk, img, ratio, new_height, exc, exit_status,
                   io, saves, start, runs>>

(* The end of the script: the interpreter exits, with status 1 when an    *)
(* exception was left unhandled and 0 otherwise.                           *)
Exit ==
    /\ pc = "exit"
    /\ pc' = "done"
    /\ exit_status' = IF exc # "none" /\ Handler(exc) = "none" THEN 1 ELSE 0
    /\ runs' = Append(runs, [start |-> start, end |-> disk, img |-> img,
                             out |-> out, io |-> io, saves |-> saves,
                             exc |-> exc, status |-> exit_status'])
    /\ UNCHANGED <<pillow, disk, img, ratio, new_height, out, exc,
                   io, saves, start>>

(* The script is run again on the file the last run left. *)
Rerun ==
    /\ pc = "done"
    /\ Len(runs) < MaxRuns
    /\ pc' = "import"
    /\ img' = NoImage
    /\ ratio' = FloatZero
    /\ new_height' = 0
    /\ out' = <<>>
    /\ exc' = "none"
    /\ exit_status' = NotExited
    /\ io' = <<>>
    /\ saves' = <<>>
    /\ start' = disk
    /\ UNCHANGED <<pillow, disk, runs>>

Step ==
    \/ Import \/ Exists \/ Open \/ PrintOriginal \/ Test \/ Ratio \/ NewHeight
    \/ Resize \/ SaveResized \/ PrintResized
    \/ PrintSmall \/ SaveSmall \/ PrintOptimized
    \/ Except \/ Exit

Next == Step \/ Rerun

Spec == Init /\ [][Next]_vars

(* A run of the script is one sequential process: its next statement is   *)
(* always executed.  Nothing obliges anyone to run the script again.       *)
FairSpec == Spec /\ WF_vars(Step)

---------------------------------------------------------------------------
(* Properties *)

Texts(o) == {o[i].text : i \in 1..Len(o)}

Count(o, text) == Cardinality({i \in 1..Len(o) : o[i].text = text})

Finished == {runs[i] : i \in 1..Len(runs)}

(* a finished run in which the import succeeded and nothing was raised *)
Clean(r) == pillow /\ r.exc = "none"

(* C1: a run on an image wider than 512 that raises nothing leaves the    *)
(* file 512 wide and exactly floor(h * 512 / w) high.                      *)
WidthCapExact ==
    \A r \in Finished :
        (Clean(r) /\ r.start.kind = "image" /\ r.start.w > 512)
            => r.end = ImageFile(512, (r.start.h * 512) \div r.start.w)

(* C2: a run on an image at most 512 wide that raises nothing does not    *)
(* resize, leaves the size as it was, and saves to the path exactly once,  *)
(* with optimize on and quality 85.                                        *)
PassThroughSmall ==
    \A r \in Finished :
        (Clean(r) /\ r.start.kind = "image" /\ r.start.w <= 512)
            => /\ r.end = r.start
               /\ r.img = [w |-> r.start.w, h |-> r.start.h, src |-> "file"]
               /\ "Resized to" \notin Texts(r.out)
               /\ r.saves = <<[w |-> r.start.w, h |-> r.start.h,
                               optimize |-> TRUE, quality |-> 85]>>
               /\ r.io = <<"exists", "open", "save">>

PassThroughAtBoundary ==
    \E r \in Finished :
        Clean(r) /\ r.start.kind = "image" /\ r.start.w = 512 /\ Len(r.saves) = 1

MissingFileSilent ==
    \A r \in Finished :
        r.start.kind = "missing"
            => /\ r.out = <<>>
               /\ "open" \notin {r.io[k] : k \in 1..Len(r.io)} /\ "save" \notin {r.io[k] : k \in 1..Len(r.io)}
               /\ r.saves = <<>>
               /\ r.end = r.start

(* C4, amended: when Pillow can be imported and the file is missing, the  *)
(* run opens and saves nothing, leaves the file system as it was and       *)
(* prints nothing.                                                         *)
MissingFileSilentWithPillow ==
    \A r \in Finished :
        (pillow /\ r.start.kind = "missing")
            => /\ r.out = <<>>
               /\ r.io = <<"exists">>
               /\ r.img = NoImage
               /\ r.saves = <<>>
               /\ r.end = r.start
               /\ r.status = 0

MissingFileRun ==
    \E r \in Finished : pillow /\ r.start.kind = "missing" /\ r.io = <<"exists">>

(* C5: without Pillow a run prints "Pillow not installed" and nothing     *)
(* else, makes no file-system call and leaves the file as it was; and      *)
(* "Pillow not installed" is printed only by runs that made no file-system *)
(* call.                                                                   *)
CapabilityMissing ==
    /\ ~pillow => io = <<>> /\ saves = <<>> /\ disk = start
    /\ (~pillow /\ pc = "done") => out = <<Line("Pillow not installed", 0, 0)>>
    /\ "Pillow not installed" \in Texts(out) => ~pillow /\ io = <<>>
    /\ \A r \in Finished :
          "Pillow not installed" \in Texts(r.out) => ~pillow /\ r.io = <<>>

CapabilityMissingRun ==
    /\ ~pillow /\ pc = "done" /\ disk.kind = "image"
    /\ out = <<Line("Pillow not installed", 0, 0)>>

(* C6, as claimed: a fault after the import is caught and gives exactly   *)
(* one "Error: ..." line, the last of the run; for a file that is not a    *)
(* valid image that line is the whole output.                              *)
FaultAbsorbedWholeOutput ==
    \A r \in Finished :
        /\ (pillow /\ r.exc # "none")
              => /\ r.status = 0
                 /\ Count(r.out, "Error") = 1
                 /\ r.out[Len(r.out)].text = "Error"
        /\ (pillow /\ r.start.kind \in {"garbage", "truncated"})
              => r.out = <<Line("Error", 0, 0)>>

(* C6, amended: a fault after the import is caught and gives exactly one  *)
(* "Error: ..." line, the last of the run; for a file that is not a valid  *)
(* image that line is the whole output when Image.open cannot identify the *)
(* file, and otherwise it may follow "Original size: ..." and "Image small *)
(* enough, skipping resize.".                                              *)
FaultAbsorbed ==
    \A r \in Finished :
        /\ (pillow /\ r.exc # "none")
              => /\ r.status = 0
                 /\ Count(r.out, "Error") = 1
                 /\ r.out[Len(r.out)].text = "Error"
        /\ (pillow /\ r.start.kind = "garbage")
              => r.out = <<Line("Error", 0, 0)>>
        /\ (pillow /\ r.start.kind = "truncated")
              => /\ r.exc # "none"
                 /\ Texts(r.out) \subseteq
                        {"Original size", "Image small enough, skipping resize.", "Error"}

FaultAfterOriginalSize ==
    \E r \in Finished :
        /\ pillow /\ r.start.kind = "truncated"
        /\ Len(r.out) = 2 /\ r.out[1].text = "Original size" /\ r.out[2].text = "Error"

(* C7, as claimed: the file is overwritten in every run except those in   *)
(* which it does not exist.                                                *)
OverwrittenUnlessMissing ==
    \A r \in Finished : r.start.kind # "missing" => Len(r.saves) >= 1

(* C7, amended: the file is overwritten, once, in every run in which      *)
(* Pillow is imported, the file exists and nothing is raised; no save is   *)
(* attempted when Pillow is missing or the file does not exist, and none   *)
(* completes in a run that raises.                                         *)
OverwrittenWhenClean ==
    \A r \in Finished :
        /\ (Clean(r) /\ r.start.kind # "missing")
              => /\ Len(r.saves) = 1
                 /\ r.end = ImageFile(r.saves[1].w, r.saves[1].h)
        /\ (~pillow \/ r.start.kind = "missing")
              => "save" \notin {r.io[k] : k \in 1..Len(r.io)} /\ r.saves = <<>> /\ r.end = r.start
        /\ r.exc # "none" => r.saves = <<>>

OverwrittenInElseBranch ==
    \E r \in Finished :
        /\ Clean(r) /\ r.start.kind = "image" /\ r.start.w <= 512
        /\ Len(r.saves) = 1

(* C8: every run terminates, and with exit status 0. *)
CleanTermination == (pc # "done") ~> (pc = "done" /\ exit_status = 0)

TerminatedAfterFault == pc = "done" /\ exit_status = 0 /\ exc \notin {"none", "ImportError"}

(* C9: the output is made of the six status lines; "Original size" comes  *)
(* once and before "Resized to", "Image small enough ..." and "Optimized   *)
(* existing image."; the lines of the two branches never meet in one run;  *)
(* "Resized to" and "Optimized existing image." come only after the save   *)
(* has completed.                                                          *)
OutputOrdering ==
    /\ Texts(out) \subseteq
           {"Original size", "Resized to", "Image small enough, skipping resize.",
            "Optimized existing image.", "Pillow not installed", "Error"}
    /\ Count(out, "Original size") <= 1
    /\ \A i \in 1..Len(out) :
           out[i].text \in {"Resized to", "Image small enough, skipping resize.",
                            "Optimized existing image."}
               => i > 1 /\ out[1].text = "Original size"
    /\ ~ /\ "Resized to" \in Texts(out)
         /\ Texts(out) \cap {"Image small enough, skipping resize.",
                             "Optimized existing image."} # {}
    /\ Texts(out) \cap {"Resized to", "Optimized existing image."} # {}
           => Len(saves) = 1 /\ disk = ImageFile(img.w, img.h)

ResizedReported ==
    /\ Len(out) = 2 /\ out[1].text = "Original size" /\ out[2].text = "Resized to"
    /\ Len(saves) = 1

(* C10: every size the program resizes to and saves is positive in both   *)
(* dimensions.                                                             *)
PositiveDimensions ==
    /\ pc = "resize" => ResizeSize.w > 0 /\ ResizeSize.h > 0
    /\ \A i \in 1..Len(saves) : saves[i].w > 0 /\ saves[i].h > 0

===========================================================================
